---- MODULE Spec2Model ----
(***************************************************************************)
(* Low Quality Website Detection Tool (src/app.py): the classification     *)
(* pipeline analyze_target and the bulk scan built on it.                  *)
(*                                                                         *)
(* Text is modelled as a sequence of tokens.  A token is one punctuation   *)
(* character (".", "/", ":", "@", "[", " ") or one run of letters or       *)
(* digits ("https", "youtube", "80").  Concatenating the tokens gives the  *)
(* Python string; every string operation of the source is modelled on the  *)
(* token sequence.  Python's None is the empty tuple None and a present    *)
(* optional value v is Some(v).                                            *)
(***************************************************************************)
EXTENDS Integers, Sequences, FiniteSets, TLC

VARIABLES
    user_input,   \* the text handed to analyze_target
    pc,           \* position of the running call / handler
    fetch_calls,  \* number of times fetch_final was entered
    candidates,   \* fetch_final: the candidate URLs
    idx,          \* fetch_final: index of the next candidate
    last_err,     \* fetch_final: last_err
    gets,         \* every HTTP GET issued so far: [url, response]
    fetched,      \* what fetch_final returned: [final_url, html, err]
    scorer_runs,  \* number of times quick_risk_from_html ran
    result,       \* what analyze_target returned
    score_in,     \* label_from_score: its argument
    label_out,    \* label_from_score: its value
    bd_host,      \* base_domain: its argument
    bd_once,      \* base_domain(bd_host)
    bd_twice,     \* base_domain(base_domain(bd_host))
    bulk,         \* bulk scan: the lines of the text area
    items,        \* bulk scan: items
    results,      \* bulk scan: results
    rows          \* bulk scan: the summary table

vars == <<user_input, pc, fetch_calls, candidates, idx, last_err, gets, fetched,
          scorer_runs, result, score_in, label_out, bd_host, bd_once, bd_twice,
          bulk, items, results, rows>>

None == <<>>
Some(v) == <<v>>

(***************************************************************************)
(* Tokens                                                                  *)
(***************************************************************************)
Alpha == {"https", "http", "youtube", "com", "co", "uk", "a", "A", "YOUTUBE"}
Digits == {"80"}
Whitespace == {" "}

Range(s) == {s[i] : i \in 1..Len(s)}

\* str.find: index of the first occurrence of token t, 0 when absent
Find(s, t) ==
    IF \E i \in 1..Len(s) : s[i] = t
    THEN CHOOSE i \in 1..Len(s) : s[i] = t /\ \A j \in 1..(i - 1) : s[j] # t
    ELSE 0

\* str.rfind: index of the last occurrence of token t, 0 when absent
RFind(s, t) ==
    IF \E i \in 1..Len(s) : s[i] = t
    THEN CHOOSE i \in 1..Len(s) : s[i] = t /\ \A j \in (i + 1)..Len(s) : s[j] # t
    ELSE 0

\* str.lstrip(cs)
LStrip(s, cs) ==
    LET keep == {i \in 1..Len(s) : s[i] \notin cs}
    IN  IF keep = {} THEN <<>>
        ELSE SubSeq(s, CHOOSE i \in keep : \A j \in keep : i <= j, Len(s))

\* str.rstrip(cs)
RStrip(s, cs) ==
    LET keep == {i \in 1..Len(s) : s[i] \notin cs}
    IN  IF keep = {} THEN <<>>
        ELSE SubSeq(s, 1, CHOOSE i \in keep : \A j \in keep : j <= i)

\* str.strip(cs)
StripChars(s, cs) == RStrip(LStrip(s, cs), cs)

\* str.strip()
Strip(s) == StripChars(s, Whitespace)

\* str.lower(): the upper-case tokens of the alphabet and their lower case
LowerToken(t) ==
    CASE t = "A" -> "a"
      [] t = "YOUTUBE" -> "youtube"
      [] t = "LOREM" -> "lorem"
      [] OTHER -> t

Lower(s) == [i \in 1..Len(s) |-> LowerToken(s[i])]

\* s.split(sep): the pieces between the occurrences of sep; never empty
RECURSIVE Split(_, _)
Split(s, sep) ==
    LET i == Find(s, sep)
    IN  IF i = 0 THEN <<s>>
        ELSE <<SubSeq(s, 1, i - 1)>> \o Split(SubSeq(s, i + 1, Len(s)), sep)

\* sep.join(parts)
RECURSIVE Join(_, _)
Join(parts, sep) ==
    IF Len(parts) = 0 THEN <<>>
    ELSE IF Len(parts) = 1 THEN parts[1]
    ELSE parts[1] \o <<sep>> \o Join(Tail(parts), sep)

\* "://" in s
HasSchemeSep(s) ==
    \E i \in 1..(Len(s) - 2) : s[i] = ":" /\ s[i + 1] = "/" /\ s[i + 2] = "/"

\* s.startswith(prefix)
StartsWith(s, prefix) ==
    Len(s) >= Len(prefix) /\ SubSeq(s, 1, Len(prefix)) = prefix

HttpsScheme == <<"https", ":", "/", "/">>
HttpScheme == <<"http", ":", "/", "/">>

(***************************************************************************)
(* urllib.parse.urlparse, as far as extract_host uses it: netloc and path, *)
(* and the ValueError it raises on an unbalanced "[" in the netloc.  The   *)
(* alphabet has no "?", "#", ";" or "]", so query, fragment and params are *)
(* always empty.                                                           *)
(***************************************************************************)
SchemeChars == Alpha \cup Digits \cup {"."}

\* urlsplit: the index of the ":" that ends the scheme, 0 when the URL has none
SchemeEnd(url) ==
    IF /\ Find(url, ":") > 1
       /\ url[1] \in Alpha
       /\ \A j \in 1..(Find(url, ":") - 1) : url[j] \in SchemeChars
    THEN Find(url, ":")
    ELSE 0

\* urlsplit: netloc and path of what follows the scheme
SplitNetloc(rest) ==
    IF Len(rest) >= 2 /\ rest[1] = "/" /\ rest[2] = "/"
    THEN IF Find(SubSeq(rest, 3, Len(rest)), "/") = 0
         THEN [netloc |-> SubSeq(rest, 3, Len(rest)), path |-> <<>>]
         ELSE [netloc |-> SubSeq(rest, 3, Find(SubSeq(rest, 3, Len(rest)), "/") + 1),
               path |-> SubSeq(rest, Find(SubSeq(rest, 3, Len(rest)), "/") + 2,
                               Len(rest))]
    ELSE [netloc |-> <<>>, path |-> rest]

\* urlsplit raises ValueError("Invalid IPv6 URL")
BadBrackets(netloc) == ("[" \in Range(netloc)) # ("]" \in Range(netloc))

StripScheme(url) == SubSeq(url, SchemeEnd(url) + 1, Len(url))

urlparse(url) == SplitNetloc(StripScheme(LStrip(url, Whitespace)))

(***************************************************************************)
(* extract_host                                                            *)
(***************************************************************************)
\* line 39: host.split("@")[-1]
AfterLastAt(host) == SubSeq(host, RFind(host, "@") + 1, Len(host))

\* line 40: host.split(":")[0]
BeforeColon(host) ==
    IF Find(host, ":") = 0 THEN host ELSE SubSeq(host, 1, Find(host, ":") - 1)

\* lines 37-44, from the parsed URL
HostOf(p) ==
    Lower(StripChars(Strip(BeforeColon(AfterLastAt(
        Strip(IF p.netloc # <<>> THEN p.netloc ELSE p.path)))), {"/"}))

\* lines 30-34
ForParse(s) == IF ~HasSchemeSep(s) THEN HttpsScheme \o s ELSE s

\* lines 35-46, for the stripped, non-empty input s
ParseHost(s) ==
    IF BadBrackets(urlparse(ForParse(s)).netloc)
    THEN StripChars(Strip(Lower(s)), {"/"})
    ELSE HostOf(urlparse(ForParse(s)))

extract_host(input) ==
    IF Strip(input) = <<>> THEN <<>> ELSE ParseHost(Strip(input))

(***************************************************************************)
(* base_domain                                                             *)
(***************************************************************************)
two_part_tlds ==
    {<< <<"co">>, <<"uk">> >>, << <<"org">>, <<"uk">> >>, << <<"ac">>, <<"uk">> >>,
     << <<"gov">>, <<"uk">> >>, << <<"com">>, <<"au">> >>, << <<"net">>, <<"au">> >>,
     << <<"org">>, <<"au">> >>, << <<"co">>, <<"in">> >>}

base_domain(h) ==
    LET host == StripChars(Lower(h), {"."})
        parts == Split(host, ".")
        n == Len(parts)
    IN  IF n <= 2 THEN host
        ELSE IF <<parts[n - 1], parts[n]>> \in two_part_tlds /\ n >= 3
             THEN Join(SubSeq(parts, n - 2, n), ".")
        ELSE Join(SubSeq(parts, n - 1, n), ".")

(***************************************************************************)
(* TRUSTED and is_trusted                                                  *)
(***************************************************************************)
DotCom(name) == <<name, ".", "com">>

TRUSTED ==
    {DotCom("youtube"), DotCom("instagram"), DotCom("facebook"),
     DotCom("google"), DotCom("amazon"), DotCom("linkedin"),
     DotCom("capitaloneshopping"), DotCom("retailmenot"),
     DotCom("ebay"), DotCom("walmart"), DotCom("target"), DotCom("bestbuy")}

is_trusted(host) ==
    LET h == extract_host(host)
        b == base_domain(h)
    IN  h \in TRUSTED \/ b \in TRUSTED

(***************************************************************************)
(* requests.get: what the network may answer to one GET.  A response is    *)
(* an exception (raised = Some(str(e))) or an HTTP response with its       *)
(* status code, its final (post-redirect) URL r.url and its body r.text.   *)
(* r.url is the URL of a request that was actually sent: a scheme, "://",  *)
(* a host and a path.                                                      *)
(***************************************************************************)
\* A fetched page: a sequence of elements, each a tag and the words of its text.
\* The word "filler" stands for a run of FillerWords ordinary words.
ThinWords == 200
FillerWords == ThinWords - 1

Element(tag, words) == [tag |-> tag, words |-> words]

Pages ==
    {<<Element("p", <<"a">>)>>,
     <<Element("p", <<"filler", "a">>)>>,
     <<Element("p", <<"LOREM", "ipsum">>)>>,
     <<Element("p", <<"filler", "dolor", "sit", "amet">>)>>}

\* pages whose script and style elements matter
ScriptedPages ==
    {<<Element("script", <<"lorem", "ipsum">>), Element("p", <<"filler">>)>>,
     <<Element("p", <<"lorem">>), Element("style", <<"a">>), Element("p", <<"ipsum">>)>>}

FinalUrls ==
    {HttpsScheme \o <<"youtube", ".", "com", "/">>,
     HttpScheme \o <<"a", ".", "youtube", ".", "com", "/", "a">>,
     HttpsScheme \o <<"a", ".", "com", "/">>,
     HttpScheme \o <<"a", ".", "com", ":", "80", "/">>}

Exceptions == {"ConnectionError"}

Raised(e) == [raised |-> Some(e), status_code |-> 0, url |-> <<>>, text |-> <<>>]
Answered(code, url, text) ==
    [raised |-> None, status_code |-> code, url |-> url, text |-> text]

PlainUrl == HttpScheme \o <<"a", ".", "com", ":", "80", "/">>

Responses ==
    {Raised(e) : e \in Exceptions}
    \cup {Answered(200, u, t) : u \in FinalUrls, t \in Pages}
    \cup {Answered(200, PlainUrl, t) : t \in ScriptedPages}
    \cup {Answered(200, PlainUrl, <<>>),
          Answered(404, PlainUrl, <<Element("p", <<"a">>)>>)}

(***************************************************************************)
(* fetch_final                                                             *)
(***************************************************************************)
\* Candidates with http tried before https
CandidatesHttpFirst(url_or_host) ==
    LET host == extract_host(url_or_host)
    IN  (IF HasSchemeSep(url_or_host) THEN <<Strip(url_or_host)>> ELSE <<>>)
        \o <<HttpScheme \o host \o <<"/">>, HttpsScheme \o host \o <<"/">>>>

\* lines 70-75: the candidate URLs, in the order they are tried
Candidates(url_or_host) ==
    LET host == extract_host(url_or_host)
    IN  (IF HasSchemeSep(url_or_host) THEN <<Strip(url_or_host)>> ELSE <<>>)
        \o <<HttpsScheme \o host \o <<"/">>, HttpScheme \o host \o <<"/">>>>

\* line 80: the response is accepted
Accepted(r) == r.raised = None /\ r.status_code < 400 /\ r.text # <<>>

\* ErrorOf that reports an exception as a status
ErrorOfStatusOnly(r) == <<"HTTP ", r.status_code>>

\* lines 82 and 84: the text recorded in last_err for a response not accepted
ErrorOf(r) == IF r.raised # None THEN r.raised ELSE <<"HTTP ", r.status_code>>

FetchOk(r) == [final_url |-> Some(r.url), html |-> Some(r.text), err |-> None]
FetchErr(msg) == [final_url |-> None, html |-> None, err |-> Some(msg)]

EmptyInput == <<"Empty input">>
\* line 85: f"Cannot access website ({last_err})"
CannotAccess(e) == <<"Cannot access website (">> \o e \o <<")">>

(***************************************************************************)
(* quick_risk_from_html                                                    *)
(***************************************************************************)
DropTags == {"script", "style", "noscript"}

\* lines 89-92: the text of the page without script, style and noscript
\* elements, its pieces joined by one space, lower-cased
RECURSIVE VisibleText(_)
VisibleText(html) ==
    IF html = <<>> THEN <<>>
    ELSE (IF Head(html).tag \in DropTags THEN <<>> ELSE Lower(Head(html).words))
         \o VisibleText(Tail(html))

\* line 98: len(text.split())
RECURSIVE WordCount(_)
WordCount(text) ==
    IF text = <<>> THEN 0
    ELSE (IF Head(text) = "filler" THEN FillerWords ELSE 1) + WordCount(Tail(text))

\* phrase in text
Contains(text, phrase) ==
    \E i \in 1..(Len(text) - Len(phrase) + 1) :
        SubSeq(text, i, i + Len(phrase) - 1) = phrase

\* quick_risk_from_html with 20 points for lorem ipsum
quick_risk_LoremTwenty(html) ==
    LET text == VisibleText(html)
        wc == WordCount(text)
        thin == wc < ThinWords
        lorem == Contains(text, <<"lorem", "ipsum">>)
                 \/ Contains(text, <<"dolor", "sit", "amet">>)
    IN  [risk |-> (IF thin THEN 20 ELSE 0) + (IF lorem THEN 20 ELSE 0),
         signals |-> [word_count |-> wc, thin_content |-> thin, lorem_ipsum |-> lorem]]

\* quick_risk_from_html with 10 points for thin content
quick_risk_ThinTen(html) ==
    LET text == VisibleText(html)
        wc == WordCount(text)
        thin == wc < ThinWords
        lorem == Contains(text, <<"lorem", "ipsum">>)
                 \/ Contains(text, <<"dolor", "sit", "amet">>)
    IN  [risk |-> (IF thin THEN 10 ELSE 0) + (IF lorem THEN 30 ELSE 0),
         signals |-> [word_count |-> wc, thin_content |-> thin, lorem_ipsum |-> lorem]]

quick_risk_from_html(html) ==
    LET text == VisibleText(html)
        wc == WordCount(text)
        thin == wc < ThinWords
        lorem == Contains(text, <<"lorem", "ipsum">>)
                 \/ Contains(text, <<"dolor", "sit", "amet">>)
    IN  [risk |-> (IF thin THEN 20 ELSE 0) + (IF lorem THEN 30 ELSE 0),
         signals |-> [word_count |-> wc, thin_content |-> thin, lorem_ipsum |-> lorem]]

(***************************************************************************)
(* label_from_score                                                        *)
(***************************************************************************)
\* label_from_score without its last return
label_from_score_NoDefault(score) ==
    IF score < 50 THEN "LOW_QUALITY"
    ELSE IF score < 60 THEN "SUSPICIOUS"
    ELSE IF score > 70 THEN "GOOD_SAFE"
    ELSE "NONE"

\* label_from_score with score >= 70 for GOOD_SAFE
label_from_score_GoodAt70(score) ==
    IF score < 50 THEN "LOW_QUALITY"
    ELSE IF score < 60 THEN "SUSPICIOUS"
    ELSE IF score >= 70 THEN "GOOD_SAFE"
    ELSE "SUSPICIOUS"

label_from_score(score) ==
    IF score < 50 THEN "LOW_QUALITY"
    ELSE IF score < 60 THEN "SUSPICIOUS"
    ELSE IF score > 70 THEN "GOOD_SAFE"
    ELSE "SUSPICIOUS"

(***************************************************************************)
(* analyze_target: the dictionaries it returns.  A key the dictionary      *)
(* does not have is None here.                                             *)
(***************************************************************************)
Max(a, b) == IF a >= b THEN a ELSE b

NoResult ==
    [status |-> "NONE", input |-> <<>>, host |-> <<>>, base_domain |-> <<>>,
     final_url |-> None, final_host |-> None, final_base_domain |-> None,
     forced_good |-> None, score |-> None, label |-> None, signals |-> None,
     reason |-> None, error |-> None]

\* lines 130-142
TrustedResult(input) ==
    LET host == extract_host(input)
        b == base_domain(host)
    IN  [NoResult EXCEPT
            !.status = "OK", !.input = input, !.host = host, !.base_domain = b,
            !.final_url = Some(HttpsScheme \o host \o <<"/">>),
            !.final_host = Some(host), !.final_base_domain = Some(b),
            !.forced_good = Some(TRUE), !.score = Some(90),
            !.label = Some("GOOD_SAFE"),
            !.reason = Some(<<"Trusted allowlist matched">>)]

\* line 147
ErrorResult(input, err) ==
    LET host == extract_host(input)
    IN  [NoResult EXCEPT
            !.status = "ERROR", !.input = input, !.host = host,
            !.base_domain = base_domain(host), !.error = Some(err)]

\* lines 149-166
RedirectResult(input, final_url) ==
    LET host == extract_host(input)
        final_host == extract_host(final_url)
    IN  [NoResult EXCEPT
            !.status = "OK", !.input = input, !.host = host,
            !.base_domain = base_domain(host),
            !.final_url = Some(final_url), !.final_host = Some(final_host),
            !.final_base_domain = Some(base_domain(final_host)),
            !.forced_good = Some(TRUE), !.score = Some(90),
            !.label = Some("GOOD_SAFE"),
            !.reason = Some(<<"Final redirected domain is trusted">>)]

\* lines 171-198
ScoredResult(input, final_url, html) ==
    LET host == extract_host(input)
        final_host == extract_host(final_url)
        res == quick_risk_from_html(html)
        no_https == ~StartsWith(Lower(final_url), HttpsScheme)
        risk == res.risk + (IF no_https THEN 25 ELSE 0)
        score == Max(0, 100 - risk)
    IN  [NoResult EXCEPT
            !.status = "OK", !.input = input, !.host = host,
            !.base_domain = base_domain(host),
            !.final_url = Some(final_url), !.final_host = Some(final_host),
            !.final_base_domain = Some(base_domain(final_host)),
            !.forced_good = Some(FALSE), !.score = Some(score),
            !.label = Some(label_from_score(score)),
            !.signals = Some([word_count |-> res.signals.word_count,
                              thin_content |-> res.signals.thin_content,
                              lorem_ipsum |-> res.signals.lorem_ipsum,
                              no_https |-> no_https]),
            !.reason = Some(<<"Risk points: ", risk,
                              ". Evaluated final URL + root domain context.">>)]

\* AfterFetch without the check of the final host against the allowlist
AfterFetchNoRedirectCheck(input, f) ==
    IF f.err # None THEN ErrorResult(input, f.err[1])
    ELSE ScoredResult(input, f.final_url[1], f.html[1])

\* lines 146-198: analyze_target once fetch_final has returned f
AfterFetch(input, f) ==
    IF f.err # None THEN ErrorResult(input, f.err[1])
    ELSE IF is_trusted(extract_host(f.final_url[1]))
         THEN RedirectResult(input, f.final_url[1])
    ELSE ScoredResult(input, f.final_url[1], f.html[1])

(***************************************************************************)
(* The inputs of analyze_target that are explored: a dotted name of up to  *)
(* MaxLabels labels with a prefix (scheme, credentials, leading path,      *)
(* white space) or a suffix (port, path, trailing dot, white space), and   *)
(* full URLs with port and path pasted with a trailing space.              *)
(***************************************************************************)
MaxLabels == 3

HostLabels == {"youtube", "com"}

RECURSIVE DottedNames(_)
DottedNames(n) ==
    IF n = 0 THEN {<<>>}
    ELSE IF n = 1 THEN {<<l>> : l \in HostLabels}
    ELSE {<<l, ".">> \o d : l \in HostLabels, d \in DottedNames(n - 1)}

Names ==
    UNION {DottedNames(n) : n \in 0..MaxLabels}
    \cup {<<"YOUTUBE", ".", "com">>, <<"a", ".", "co", ".", "uk">>}

Prefixes ==
    {<<>>, <<" ">>, HttpsScheme, HttpScheme, <<"a", "@">>, <<"A", ".">>,
     <<"/">>, <<"/", "a", "/">>, <<"[">>}

Suffixes ==
    {<<>>, <<"/">>, <<":", "80">>, <<"/", "a">>, <<" ">>, <<".">>}

Inputs ==
    {p \o n : p \in Prefixes, n \in Names}
    \cup {n \o x : n \in Names, x \in Suffixes}
    \cup {HttpsScheme \o n \o <<":", "80", "/", "a", " ">> : n \in Names}

NoFetch == [final_url |-> None, html |-> None, err |-> None]

\* the variables of analyze_target before any call of it
PipelineIdle ==
    /\ fetch_calls = 0
    /\ candidates = <<>>
    /\ idx = 0
    /\ last_err = None
    /\ gets = <<>>
    /\ fetched = NoFetch
    /\ scorer_runs = 0
    /\ result = NoResult

LabelIdle == score_in = 0 /\ label_out = "NONE"
DomainIdle == bd_host = <<>> /\ bd_once = None /\ bd_twice = None
BulkIdle == bulk = <<>> /\ items = <<>> /\ results = <<>> /\ rows = <<>>

pipelineVars == <<user_input, pc, fetch_calls, candidates, idx, last_err, gets,
                  fetched, scorer_runs, result>>
labelVars == <<score_in, label_out>>
domainVars == <<bd_host, bd_once, bd_twice>>
bulkVars == <<bulk, items, results, rows>>

(***************************************************************************)
(* analyze_target, step by step: one step up to the first GET, one step    *)
(* per GET, one step from the return of fetch_final to the return of       *)
(* analyze_target.                                                         *)
(***************************************************************************)
Init ==
    /\ user_input \in Inputs
    /\ pc = "call"
    /\ PipelineIdle
    /\ LabelIdle /\ DomainIdle /\ BulkIdle

\* lines 126-142, and 145 with 67-76 when the host is not trusted
AllowlistCheck ==
    /\ pc = "call"
    /\ LET host == extract_host(user_input)
       IN  IF is_trusted(host)
           THEN /\ result' = TrustedResult(user_input)
                /\ pc' = "done"
                /\ UNCHANGED <<fetch_calls, candidates, idx, last_err, fetched>>
           ELSE /\ fetch_calls' = fetch_calls + 1
                /\ IF extract_host(user_input) = <<>>
                   THEN /\ fetched' = FetchErr(EmptyInput)
                        /\ pc' = "fetched"
                        /\ UNCHANGED <<candidates, idx, last_err>>
                   ELSE /\ candidates' = Candidates(user_input)
                        /\ idx' = 1
                        /\ last_err' = None
                        /\ pc' = "get"
                        /\ UNCHANGED fetched
                /\ UNCHANGED result
    /\ UNCHANGED <<user_input, gets, scorer_runs>>
    /\ UNCHANGED <<labelVars, domainVars, bulkVars>>

\* lines 77-85: one pass of the loop, with the return that ends it
Get ==
    /\ pc = "get"
    /\ \E r \in Responses :
        /\ gets' = Append(gets, [url |-> candidates[idx], response |-> r])
        /\ IF Accepted(r)
           THEN /\ fetched' = FetchOk(r)
                /\ pc' = "fetched"
                /\ UNCHANGED <<idx, last_err>>
           ELSE /\ last_err' = Some(ErrorOf(r))
                /\ IF idx < Len(candidates)
                   THEN /\ idx' = idx + 1
                        /\ UNCHANGED <<fetched, pc>>
                   ELSE /\ fetched' = FetchErr(CannotAccess(last_err'[1]))
                        /\ pc' = "fetched"
                        /\ UNCHANGED idx
    /\ UNCHANGED <<user_input, fetch_calls, candidates, scorer_runs, result>>
    /\ UNCHANGED <<labelVars, domainVars, bulkVars>>

\* lines 146-198
Classify ==
    /\ pc = "fetched"
    /\ result' = AfterFetch(user_input, fetched)
    /\ scorer_runs' =
          IF fetched.err = None /\ ~is_trusted(extract_host(fetched.final_url[1]))
          THEN scorer_runs + 1 ELSE scorer_runs
    /\ pc' = "done"
    /\ UNCHANGED <<user_input, fetch_calls, candidates, idx, last_err, gets, fetched>>
    /\ UNCHANGED <<labelVars, domainVars, bulkVars>>

Next == AllowlistCheck \/ Get \/ Classify

Spec == Init /\ [][Next]_vars

(***************************************************************************)
(* analyze_target as one call: everything it may return for an input,      *)
(* over all answers of the network.  fetch_final returns the first         *)
(* accepted response, or the error of the last response when none is.      *)
(***************************************************************************)
FetchOutcomes(input) ==
    IF extract_host(input) = <<>> THEN {FetchErr(EmptyInput)}
    ELSE {FetchOk(r) : r \in {q \in Responses : Accepted(q)}}
         \cup {FetchErr(CannotAccess(ErrorOf(r))) :
                  r \in {q \in Responses : ~Accepted(q)}}

AnalyzeOutcomes(input) ==
    IF is_trusted(extract_host(input)) THEN {TrustedResult(input)}
    ELSE {AfterFetch(input, f) : f \in FetchOutcomes(input)}

(***************************************************************************)
(* label_from_score on its own                                             *)
(***************************************************************************)
MaxScore == 100

InitLabel ==
    /\ score_in \in 0..MaxScore
    /\ label_out = "NONE"
    /\ user_input = <<>> /\ pc = "label" /\ PipelineIdle
    /\ DomainIdle /\ BulkIdle

LabelFromScore ==
    /\ pc = "label"
    /\ label_out = "NONE"
    /\ label_out' = label_from_score(score_in)
    /\ UNCHANGED <<score_in, pipelineVars, domainVars, bulkVars>>

NextLabel == LabelFromScore

SpecLabel == InitLabel /\ [][NextLabel]_vars

(***************************************************************************)
(* base_domain on its own, applied once and then to its own result         *)
(***************************************************************************)
MaxHostTokens == 5

DomainTokens == {"a", "A", "co", "uk", "."}

RECURSIVE HostStrings(_)
HostStrings(n) ==
    IF n = 0 THEN {<<>>}
    ELSE HostStrings(n - 1)
         \cup {Append(h, t) : h \in {g \in HostStrings(n - 1) : Len(g) = n - 1},
                              t \in DomainTokens}

InitDomain ==
    /\ bd_host \in HostStrings(MaxHostTokens)
    /\ bd_once = None /\ bd_twice = None
    /\ user_input = <<>> /\ pc = "domain" /\ PipelineIdle
    /\ LabelIdle /\ BulkIdle

BaseDomainOnce ==
    /\ pc = "domain"
    /\ bd_once = None
    /\ bd_once' = Some(base_domain(bd_host))
    /\ UNCHANGED <<bd_host, bd_twice, pipelineVars, labelVars, bulkVars>>

BaseDomainTwice ==
    /\ pc = "domain"
    /\ bd_once # None /\ bd_twice = None
    /\ bd_twice' = Some(base_domain(bd_once[1]))
    /\ UNCHANGED <<bd_host, bd_once, pipelineVars, labelVars, bulkVars>>

NextDomain == BaseDomainOnce \/ BaseDomainTwice

SpecDomain == InitDomain /\ [][NextDomain]_vars

(***************************************************************************)
(* The bulk scan (lines 238-265): the "Bulk Analyze" button                *)
(***************************************************************************)
BulkCap == 200
MaxLines == 2

\* line 239: [x.strip() for x in bulk.splitlines() if x.strip()], for the
\* text area given as the sequence of its lines
NonBlank(line) == Strip(line) # <<>>

\* Items that keeps the blank lines
ItemsKeepBlank(lines) == [i \in 1..Len(lines) |-> Strip(lines[i])]

Items(lines) ==
    LET kept == SelectSeq(lines, NonBlank)
    IN  [i \in 1..Len(kept) |-> Strip(kept[i])]

\* line 243: items[:200]
FirstItems(list) ==
    SubSeq(list, 1, IF Len(list) < BulkCap THEN Len(list) ELSE BulkCap)

\* lines 247-264: the summary row of one result
Row(r) ==
    IF r.status = "ERROR"
    THEN [input |-> r.input, label |-> "ERROR", score |-> 0, final_url |-> <<>>,
          final_root_domain |-> r.base_domain, note |-> r.error[1]]
    ELSE [input |-> r.input, label |-> r.label[1], score |-> r.score[1],
          final_url |-> r.final_url[1],
          final_root_domain |-> r.final_base_domain[1],
          note |-> IF r.forced_good = Some(TRUE) THEN <<"trusted">> ELSE <<>>]

\* the lines typed into the text area
BulkLines ==
    {<<>>, <<" ">>, <<"youtube", ".", "com">>, <<" ", "a", ".", "com", " ">>}

RECURSIVE LineLists(_)
LineLists(n) ==
    IF n = 0 THEN {<<>>}
    ELSE LineLists(n - 1)
         \cup {Append(ls, l) : ls \in {k \in LineLists(n - 1) : Len(k) = n - 1},
                               l \in BulkLines}

\* BulkCap - 1 non-blank lines, all trusted, with a blank line among them
LongList ==
    [i \in 1..BulkCap |->
        IF i = BulkCap - 1 THEN <<" ">>
        ELSE IF i = BulkCap THEN <<"a", ".", "youtube", ".", "com">>
        ELSE <<"youtube", ".", "com">>]

BulkTexts ==
    LineLists(MaxLines) \cup {LongList \o ls : ls \in LineLists(2)}

InitBulk ==
    /\ bulk \in BulkTexts
    /\ items = <<>> /\ results = <<>> /\ rows = <<>>
    /\ user_input = <<>> /\ pc = "bulk" /\ PipelineIdle
    /\ LabelIdle /\ DomainIdle

\* lines 238-242: the button is pressed
BulkClick ==
    /\ pc = "bulk"
    /\ items' = Items(bulk)
    /\ pc' = IF items' = <<>> THEN "warned" ELSE "analyzing"
    /\ UNCHANGED <<bulk, results, rows, user_input, fetch_calls, candidates, idx,
                   last_err, gets, fetched, scorer_runs, result, labelVars,
                   domainVars>>

\* line 243: the next call of analyze_target; after the last one, lines 245-265
BulkCall ==
    /\ pc = "analyzing"
    /\ \E r \in AnalyzeOutcomes(FirstItems(items)[Len(results) + 1]) :
          /\ results' = Append(results, r)
          /\ IF Len(results) + 1 = Len(FirstItems(items))
             THEN /\ rows' = [i \in 1..Len(results') |-> Row(results'[i])]
                  /\ pc' = "table"
             ELSE UNCHANGED <<rows, pc>>
    /\ UNCHANGED <<bulk, items, user_input, fetch_calls, candidates, idx, last_err,
                   gets, fetched, scorer_runs, result, labelVars, domainVars>>

NextBulk == BulkClick \/ BulkCall

SpecBulk == InitBulk /\ [][NextBulk]_vars

(***************************************************************************)
(* Properties                                                              *)
(***************************************************************************)
\* the host, or its base domain, is a member of TRUSTED
InAllowlist(host) == host \in TRUSTED \/ base_domain(host) \in TRUSTED

IsForcedGood(r, why) ==
    /\ r.status = "OK"
    /\ r.label = Some("GOOD_SAFE")
    /\ r.score = Some(90)
    /\ r.forced_good = Some(TRUE)
    /\ r.reason = Some(<<why>>)
    /\ r.signals = None
    /\ r.error = None

\* C1: whenever the normalized host of the input, or that host's base domain,
\* is in TRUSTED, analyze_target finishes at step 1 with the forced GOOD_SAFE
\* result and reason "Trusted allowlist matched", fetch_final is never
\* entered and no GET is ever issued.
C1_TrustedInputNeverFetches ==
    InAllowlist(extract_host(user_input)) =>
        /\ pc \in {"call", "done"}
        /\ fetch_calls = 0
        /\ gets = <<>>
        /\ pc = "done" => IsForcedGood(result, "Trusted allowlist matched")

\* C2: when the input host is not trusted (step 1 did not match), the fetch
\* succeeded and the host of the final URL (or its base domain) is in TRUSTED,
\* the result is the forced GOOD_SAFE one with reason "Final redirected
\* domain is trusted", whatever the page and the scheme of the final URL: the
\* scorer never ran.
C2_RedirectToTrustedIsForcedGood ==
    (/\ pc = "done"
     /\ ~is_trusted(extract_host(user_input))
     /\ fetched.err = None /\ fetched.final_url # None
     /\ InAllowlist(extract_host(fetched.final_url[1])))
    => /\ IsForcedGood(result, "Final redirected domain is trusted")
       /\ result.final_url = fetched.final_url
       /\ scorer_runs = 0

C2_Witness ==
    /\ pc = "done"
    /\ ~InAllowlist(extract_host(user_input))
    /\ fetched.final_url = Some(HttpScheme \o <<"a", ".", "youtube", ".", "com", "/", "a">>)
    /\ fetched.html = Some(<<Element("p", <<"LOREM", "ipsum">>)>>)
    /\ IsForcedGood(result, "Final redirected domain is trusted")

Acceptable(r) == r.raised = None /\ r.status_code < 400 /\ r.text # <<>>

\* the URLs fetch_final is to try for an input, with its first entry given
TryOrder(input, first) ==
    (IF HasSchemeSep(input) THEN <<first>> ELSE <<>>)
    \o <<HttpsScheme \o extract_host(input) \o <<"/">>,
         HttpScheme \o extract_host(input) \o <<"/">>>>

\* the GETs issued so far are the first candidates of order, each but the
\* last answered by a failure; after a failure the next candidate is due; an
\* accepted response ends the loop and is what fetch_final returns
FollowsOrder(order) ==
    /\ Len(gets) <= Len(order)
    /\ \A i \in 1..Len(gets) : gets[i].url = order[i]
    /\ \A i \in 1..(Len(gets) - 1) : ~Acceptable(gets[i].response)
    /\ (pc = "get") => idx = Len(gets) + 1 /\ idx <= Len(order)
    /\ (Len(gets) > 0 /\ Acceptable(gets[Len(gets)].response)) =>
          /\ pc \in {"fetched", "done"}
          /\ fetched.final_url = Some(gets[Len(gets)].response.url)
          /\ fetched.html = Some(gets[Len(gets)].response.text)
          /\ fetched.err = None
    /\ (Len(gets) > 0 /\ ~Acceptable(gets[Len(gets)].response)
        /\ Len(gets) < Len(order)) => pc = "get"

\* C4 as stated: the first candidate is the raw input itself when it
\* contains "://", then https://{host}/, then http://{host}/; the first
\* accepted response is returned and ends the GETs.
C4_TriesRawInputThenHttpsThenHttp ==
    FollowsOrder(TryOrder(user_input, user_input))

\* C4 as amended: the first candidate is the raw input with its leading and
\* trailing white space removed (when the input contains "://"), then
\* https://{host}/, then http://{host}/; the first accepted response is
\* returned and ends the GETs; the next candidate is tried only after a
\* failure.
C4_TriesStrippedInputThenHttpsThenHttp ==
    FollowsOrder(TryOrder(user_input, Strip(user_input)))

C4_Witness ==
    /\ HasSchemeSep(user_input) /\ Strip(user_input) # user_input
    /\ Len(gets) = 3
    /\ gets[1].url = Strip(user_input)
    /\ gets[1].response.status_code = 404
    /\ gets[2].response.raised # None
    /\ Acceptable(gets[3].response)
    /\ fetched.final_url = Some(gets[3].response.url)

\* the text fetch_final records for a response it does not accept
FailureText(r) == IF r.raised # None THEN r.raised ELSE <<"HTTP ", r.status_code>>

\* C5: when the last GET of a call failed and no candidate is left,
\* fetch_final returns no URL, no HTML and "Cannot access website (<e>)" with
\* <e> the failure of that last GET; analyze_target then returns ERROR with
\* that message, no score, label or signals, and the scorer never ran.
C5_AllCandidatesFailedIsError ==
    (/\ pc \in {"fetched", "done"}
     /\ Len(gets) > 0
     /\ ~Acceptable(gets[Len(gets)].response))
    => /\ fetched.final_url = None /\ fetched.html = None
       /\ fetched.err = Some(<<"Cannot access website (">>
                             \o FailureText(gets[Len(gets)].response) \o <<")">>)
       /\ scorer_runs = 0
       /\ pc = "done" =>
             /\ result.status = "ERROR"
             /\ result.error = fetched.err
             /\ result.score = None /\ result.label = None
             /\ result.signals = None /\ result.forced_good = None

C5_Witness ==
    /\ pc = "done"
    /\ Len(gets) = 2
    /\ gets[1].response.status_code = 404
    /\ gets[2].response.raised = Some("ConnectionError")
    /\ result.status = "ERROR"
    /\ result.error = Some(<<"Cannot access website (", "ConnectionError", ")">>)

\* C6: for every score in 0..100, label_from_score gives LOW_QUALITY below
\* 50, SUSPICIOUS from 50 to 70 and GOOD_SAFE above 70; so 49 is LOW_QUALITY,
\* 50, 59 and 70 are SUSPICIOUS, 71 and 100 are GOOD_SAFE.
C6_LabelBoundaries ==
    label_out # "NONE" =>
        /\ score_in < 50 => label_out = "LOW_QUALITY"
        /\ (50 <= score_in /\ score_in <= 70) => label_out = "SUSPICIOUS"
        /\ score_in > 70 => label_out = "GOOD_SAFE"
        /\ score_in = 49 => label_out = "LOW_QUALITY"
        /\ score_in \in {50, 59, 70} => label_out = "SUSPICIOUS"
        /\ score_in \in {71, 100} => label_out = "GOOD_SAFE"

C6_Witness == score_in = 70 /\ label_out = "SUSPICIOUS"

\* the three risk signals of a content-scored result, as the set of those
\* that are true, and the points they stand for
RiskSignals(r) ==
    (IF r.signals[1].word_count < 200 THEN {"thin"} ELSE {})
    \cup (IF r.signals[1].lorem_ipsum THEN {"lorem"} ELSE {})
    \cup (IF ~StartsWith(r.final_url[1], HttpsScheme) THEN {"no_https"} ELSE {})

RiskPoints(sigs) ==
    (IF "thin" \in sigs THEN 20 ELSE 0) + (IF "lorem" \in sigs THEN 30 ELSE 0)
    + (IF "no_https" \in sigs THEN 25 ELSE 0)

\* the signals and the score of every page the scorer may be given
ScoredPages ==
    {[sigs |-> RiskSignals(r), score |-> r.score[1]] :
        r \in {ScoredResult(<<>>, u, h) :
                  u \in {v \in FinalUrls : ~InAllowlist(extract_host(v))},
                  h \in Pages \cup ScriptedPages}}

\* C7: a content-scored result has risk 20 (under 200 words) + 30 (lorem
\* ipsum) + 25 (final URL not https) and score max(0, 100 - risk); a page
\* with the same signals and one more scores no higher; all three signals
\* give risk 75, score 25, LOW_QUALITY.
C7_ScoreIsHundredMinusRisk ==
    (pc = "done" /\ result.forced_good = Some(FALSE)) =>
        LET sigs == RiskSignals(result)
        IN  /\ result.reason = Some(<<"Risk points: ", RiskPoints(sigs),
                                      ". Evaluated final URL + root domain context.">>)
            /\ result.score = Some(Max(0, 100 - RiskPoints(sigs)))
            /\ result.signals[1].thin_content = ("thin" \in sigs)
            /\ result.signals[1].no_https = ("no_https" \in sigs)
            /\ \A other \in ScoredPages :
                  (/\ sigs \subseteq other.sigs
                   /\ Cardinality(other.sigs) = Cardinality(sigs) + 1)
                  => other.score <= result.score[1]
            /\ sigs = {"thin", "lorem", "no_https"} =>
                  /\ result.score = Some(25)
                  /\ result.label = Some("LOW_QUALITY")

C7_Witness ==
    /\ pc = "done"
    /\ result.forced_good = Some(FALSE)
    /\ fetched.html = Some(<<Element("p", <<"LOREM", "ipsum">>)>>)
    /\ result.signals[1].word_count = 2
    /\ result.final_url = Some(PlainUrl)
    /\ result.reason = Some(<<"Risk points: ", 75,
                              ". Evaluated final URL + root domain context.">>)
    /\ result.score = Some(25)
    /\ result.label = Some("LOW_QUALITY")

\* C8: base_domain is idempotent: applied to its own result it returns that
\* result, for every host, dots at either end or in a row included.
C8_BaseDomainIdempotent == bd_twice # None => bd_twice = bd_once

\* the lines of the text area that are not blank, by position
NonBlankAt == {i \in 1..Len(bulk) : \E j \in 1..Len(bulk[i]) : bulk[i][j] # " "}

Min(a, b) == IF a <= b THEN a ELSE b

\* C9: the bulk table has one row per non-blank line among the first 200
\* non-blank lines, in the order of the lines, and none for a blank line; the
\* row of an ERROR result has label "ERROR", score 0 and the error text as
\* note; the row of a forced-good result has note "trusted".
C9_OneRowPerNonBlankLine ==
    /\ pc = "warned" => NonBlankAt = {} /\ rows = <<>>
    /\ pc \in {"bulk", "analyzing"} => rows = <<>>
    /\ pc = "table" =>
          LET at == NonBlankAt
          IN  /\ Len(rows) = Min(200, Cardinality(at))
              /\ Len(results) = Len(rows)
              /\ \A i \in at :
                    LET k == Cardinality({j \in at : j <= i})
                    IN  k <= 200 =>
                            /\ rows[k].input = Strip(bulk[i])
                            /\ results[k].input = Strip(bulk[i])
              /\ \A k \in 1..Len(rows) :
                    /\ results[k].status = "ERROR" =>
                          /\ rows[k].label = "ERROR"
                          /\ rows[k].score = 0
                          /\ rows[k].note = results[k].error[1]
                    /\ results[k].forced_good = Some(TRUE) =>
                          rows[k].note = <<"trusted">>

C9_Witness ==
    /\ pc = "table"
    /\ Cardinality(NonBlankAt) = 201
    /\ Len(bulk) = 202
    /\ Len(rows) = 200
    /\ rows[1].note = <<"trusted">>
    /\ rows[200].label = "ERROR"
    /\ rows[200].input = <<"a", ".", "com">>
    /\ rows[200].note = <<"Cannot access website (", "HTTP ", 404, ")">>

\* C10: in every OK result forced_good is true exactly when the score is 90;
\* a content-scored page has a score in {100, 80, 75, 70, 55, 50, 45, 25},
\* never 90 and never 0.
C10_ForcedGoodIffNinety ==
    (pc = "done" /\ result.status = "OK") =>
        /\ result.forced_good = Some(TRUE) <=> result.score = Some(90)
        /\ result.forced_good = Some(FALSE) =>
              result.score[1] \in {100, 80, 75, 70, 55, 50, 45, 25}

C10_Witness ==
    /\ pc = "done"
    /\ result.status = "OK"
    /\ result.forced_good = Some(FALSE)
    /\ result.score = Some(80)
    /\ result.signals[1].thin_content

\* the step-by-step call returns nothing the one-call summary does not hold
CallAgreesWithSummary == pc = "done" => result \in AnalyzeOutcomes(user_input)

====
